---- MODULE Spec2Model ----
(***************************************************************************)
(* Model of the command detection and delegation pipeline of               *)
(* vision-beta-agent: the Pattern Extractor (detectCommand), the           *)
(* Coordinator ("mother agent") route, the specialised-agent execute route *)
(* with its Handler Dispatch, and the in-process history, metrics and file *)
(* stores they share.                                                      *)
(*                                                                         *)
(* A text is a sequence of lower-case words separated by single blanks,    *)
(* with flags telling whether the original text carried leading or         *)
(* trailing whitespace and whether it was typed in upper case.  Every      *)
(* regular expression of the source carries the /i flag, so the matchers   *)
(* below never read the `upper` flag; String.trim() clears `lead`/`trail`. *)
(***************************************************************************)
EXTENDS Integers, Sequences, FiniteSets, TLC

\* ------------------------------------------------------------------ texts

Txt(ws) == [lead |-> FALSE, trail |-> FALSE, upper |-> FALSE, words |-> ws]

\* String.prototype.trim(): surrounding whitespace is dropped.
trim(t) == [t EXCEPT !.lead = FALSE, !.trail = FALSE]

\* Words made only of [a-zA-Z0-9._-] (the name class of the create rule).
NameWords ==
  { "help", "commands", "with", "show", "list", "get", "please", "create",
    "script", "file", "foo", "content", "hi", "files", "analyze", "json",
    "data", "search", "cats", "in", "wiki", "schedule", "meeting", "standup",
    "for", "noon", "lunch", "read", "delete", "notes.txt", "ghost.txt",
    "hello", "there", "named", "a", "empty.txt", "..notes.txt" }

\* Words of the shape [a-zA-Z0-9._-]+\.[a-zA-Z0-9]+ (name.ext).
FileWords == { "notes.txt", "ghost.txt", "empty.txt", "..notes.txt" }

\* Words of the shape key: (a [a-z0-9_]+ stem followed by a colon).
KeyWords == { "content:", "json:", "type:", "command:" }

\* The stem of a key: word.
Stem(w) == CASE w = "content:" -> "content"
             [] w = "json:" -> "json"
             [] w = "type:" -> "type"
             [] w = "command:" -> "command"
             [] OTHER -> w

Vocabulary == NameWords \cup KeyWords

\* [^:]+ : a non-empty run of words holding no colon.
NoColon(ws) == Len(ws) > 0 /\ \A i \in 1..Len(ws) : ws[i] \notin KeyWords

Drop(ws, n) == SubSeq(ws, n + 1, Len(ws))

StartsWith(ws, S) == Len(ws) > 0 /\ ws[1] \in S

\* An optional leading word of S followed by whitespace, (?:word\s+)?
Opt(ws, S) == IF StartsWith(ws, S) THEN Tail(ws) ELSE ws

\* ------------------------------------------------- src/utils/env.ts rules

EmptyParams == [k \in {} |-> <<>>]

Has(p, k) == k \in DOMAIN p

Truthy(p, k) == Has(p, k) /\ p[k] # << >>

NoMatch == [ok |-> FALSE, params |-> EmptyParams]

Match(p) == [ok |-> TRUE, params |-> p]

CreateTypes ==
  { "file", "document", "script", "json", "html", "css", "python",
    "typescript", "javascript" }

\* commandPatterns.create with the `create` case of detectCommand:
\* params { type, name, content: match[3] || match[4] || '' }.
MatchCreate(ws) ==
  LET w1 == Opt(ws, {"please"})
      w2 == Opt(Tail(w1), {"a", "an"})
      w3 == Tail(w2)
      w4 == IF StartsWith(w3, {"called", "named"}) /\ StartsWith(Tail(w3), Vocabulary)
            THEN Tail(w3) ELSE w3
      rest == Tail(w4)
      withContent ==
        /\ Len(rest) >= 2
        /\ rest[1] = "with"
        /\ rest[2] = "content:" \/ (rest[2] = "content" /\ Len(rest) >= 3)
      \* a key: word holds the name up to its colon; the colon starts match[4]
      tail == IF w4[1] \in KeyWords THEN <<":">> \o rest ELSE rest
  IN  IF /\ StartsWith(w1, {"create", "make", "write"})
         /\ StartsWith(w2, CreateTypes)
         /\ StartsWith(w4, Vocabulary)
      THEN Match([type |-> <<w2[1]>>,
                  name |-> <<Stem(w4[1])>>,
                  content |-> IF withContent THEN Drop(rest, 2) ELSE tail])
      ELSE NoMatch

ListTypes == { "files", "documents", "scripts", "agents", "commands", "memory" }

\* commandPatterns.list: params { type, location: match[2] || '' }.
MatchList(ws) ==
  LET w1 == Opt(ws, {"please"})
      w2 == Opt(Tail(w1), {"all", "my"})
      rest == Tail(w2)
  IN  IF /\ StartsWith(w1, {"list", "show", "get"})
         /\ StartsWith(w2, ListTypes)
         /\ rest = <<>> \/ (rest[1] = "in" /\ Len(rest) >= 2)
      THEN Match([type |-> <<w2[1]>>,
                  location |-> IF rest = <<>> THEN <<>> ELSE Tail(rest)])
      ELSE NoMatch

AnalyzeTypes == { "json", "text", "code", "data", "file" }

\* commandPatterns.analyze: between single blanks the type must carry its
\* colon ((?:\s*:|:?\s+) followed by (?:\s+(.+))? needs two blanks otherwise).
\* params { type, content, file }: match[2] is a file when it is name.ext.
MatchAnalyze(ws) ==
  LET w1 == Opt(ws, {"please"})
      w2 == Opt(Tail(w1), {"this", "the", "my"})
      rest == Tail(w2)
      isFile == Len(rest) = 1 /\ rest[1] \in FileWords
  IN  IF /\ StartsWith(w1, {"analyze", "examine", "parse", "process"})
         /\ StartsWith(w2, KeyWords)
         /\ Stem(w2[1]) \in AnalyzeTypes
      THEN Match([type |-> <<Stem(w2[1])>>,
                  content |-> IF isFile THEN <<>> ELSE rest,
                  file |-> IF isFile THEN rest ELSE <<>>])
      ELSE NoMatch

\* commandPatterns.search: ([^:]+) is greedy and runs to the end of the text,
\* so the optional (?:\s+in\s+([^:]+))? clause always matches empty.
MatchSearch(ws) ==
  LET w1 == Opt(ws, {"please"})
      w2 == Tail(w1)
      w3 == IF StartsWith(w2, {"for"}) /\ Len(w2) >= 2 THEN Tail(w2) ELSE w2
      w4 == IF /\ Len(w3) >= 3
               /\ w3[1] \in {"information", "data", "content"}
               /\ w3[2] \in {"about", "on"}
            THEN Drop(w3, 2)
            ELSE IF /\ Len(w3) >= 4
                    /\ w3[1] \in {"information", "data", "content"}
                    /\ w3[2] = "related"
                    /\ w3[3] = "to"
                 THEN Drop(w3, 3) ELSE w3
  IN  IF StartsWith(w1, {"search", "find", "look"}) /\ NoColon(w2)
      THEN Match([query |-> w4, source |-> <<>>])
      ELSE NoMatch

ScheduleTypes == { "meeting", "event", "task", "reminder", "appointment" }

\* The greedy description of commandPatterns.schedule: all of ws when it holds
\* no colon, else the longest colon-free prefix followed by for|at|on and a
\* non-empty rest; 0 when there is none.
DescriptionEnd(ws) ==
  IF NoColon(ws) THEN Len(ws)
  ELSE LET cuts == { i \in 1..Len(ws) :
                       /\ i >= 2
                       /\ i < Len(ws)
                       /\ ws[i] \in {"for", "at", "on"}
                       /\ NoColon(SubSeq(ws, 1, i - 1)) }
       IN  IF cuts = {} THEN 0
           ELSE (CHOOSE i \in cuts : \A j \in cuts : j <= i) - 1

\* commandPatterns.schedule: params { type, description, time: match[3] || '' }.
MatchSchedule(ws) ==
  LET w0 == Opt(ws, {"please"})
      \* set\s+up is one verb of two words
      w1 == IF Len(w0) >= 2 /\ w0[1] = "set" /\ w0[2] = "up" THEN <<"plan">> \o Drop(w0, 2)
            ELSE w0
      w2 == Opt(Tail(w1), {"a", "an"})
      w3 == Tail(w2)
      w4 == IF StartsWith(w3, {"called", "titled", "named"}) /\ Len(w3) >= 2
            THEN Tail(w3) ELSE w3
      n == DescriptionEnd(w4)
  IN  IF /\ StartsWith(w1, {"schedule", "create", "book", "plan"})
         /\ StartsWith(w2, ScheduleTypes)
         /\ Len(w4) > 0
         /\ n > 0
      THEN Match([type |-> <<w2[1]>>,
                  description |-> SubSeq(w4, 1, n),
                  time |-> Drop(w4, n + 1)])
      ELSE NoMatch

\* commandPatterns.read: params { filename }.
MatchRead(ws) ==
  LET w1 == Opt(ws, {"please"})
      w2 == Opt(Tail(w1), {"the", "my"})
      w3 == IF Len(w2) >= 2 /\ w2[1] \in {"content", "contents"} /\ w2[2] = "of"
            THEN Drop(w2, 2) ELSE w2
      w4 == Opt(w3, {"file"})
  IN  IF /\ StartsWith(w1, {"read", "open", "show", "display", "view", "get"})
         /\ Len(w4) = 1
         /\ w4[1] \in FileWords
      THEN Match([filename |-> w4])
      ELSE NoMatch

\* commandPatterns.delete: params { filename }.
MatchDelete(ws) ==
  LET w1 == Opt(ws, {"please"})
      w2 == Opt(Tail(w1), {"the", "my"})
      w3 == Opt(w2, {"file"})
  IN  IF /\ StartsWith(w1, {"delete", "remove", "trash"})
         /\ Len(w3) = 1
         /\ w3[1] \in FileWords
      THEN Match([filename |-> w3])
      ELSE NoMatch

\* Object.entries(commandPatterns): the rules in declaration order.
PatternOrder ==
  << "create", "list", "analyze", "search", "schedule", "read", "delete" >>

MatchPattern(name, ws) ==
  CASE name = "create" -> MatchCreate(ws)
    [] name = "list" -> MatchList(ws)
    [] name = "analyze" -> MatchAnalyze(ws)
    [] name = "search" -> MatchSearch(ws)
    [] name = "schedule" -> MatchSchedule(ws)
    [] name = "read" -> MatchRead(ws)
    [] name = "delete" -> MatchDelete(ws)

\* detectCommand, lines 92-171: the first rule of PatternOrder that matches.
RECURSIVE FirstMatch(_, _)
FirstMatch(i, ws) ==
  IF i > Len(PatternOrder) THEN [ok |-> FALSE, command |-> "", params |-> EmptyParams]
  ELSE LET m == MatchPattern(PatternOrder[i], ws)
       IN  IF m.ok THEN [ok |-> TRUE, command |-> PatternOrder[i], params |-> m.params]
           ELSE FirstMatch(i + 1, ws)

\* extractParameters, line 194: the verb the (untrimmed) text begins with,
\* after an optional "please" and an optional "can you".
FallbackVerbs ==
  { "create", "list", "analyze", "search", "read", "delete", "schedule" }

LeadingVerb(text) ==
  LET w1 == Opt(text.words, {"please"})
      w2 == IF Len(w1) >= 2 /\ w1[1] = "can" /\ w1[2] = "you" THEN Drop(w1, 2) ELSE w1
  IN  IF ~text.lead /\ StartsWith(w2, FallbackVerbs) THEN w2[1] ELSE ""

\* extractParameters, lines 200-214: every key: word followed by a value word
\* sets params[key.toLowerCase()]; a later pair overwrites an earlier one.
RECURSIVE KeyValues(_, _)
KeyValues(ws, acc) ==
  IF Len(ws) < 2 THEN acc
  ELSE IF ws[1] \in KeyWords
       THEN KeyValues(Drop(ws, 2),
                      [k \in DOMAIN acc \cup {Stem(ws[1])} |->
                         IF k = Stem(ws[1]) THEN <<ws[2]>> ELSE acc[k]])
       ELSE KeyValues(Tail(ws), acc)

\* The \b of line 217 holds only next to a letter or digit: the match starts
\* past the dots a word begins with.
FromWordBoundary(w) == IF w = "..notes.txt" THEN "notes.txt" ELSE w

\* extractParameters, lines 217-220: the first name.ext word becomes filename
\* unless a filename or file parameter is already set.
WithFilename(ws, p) ==
  LET hits == { i \in 1..Len(ws) : ws[i] \in FileWords }
      first == CHOOSE i \in hits : \A j \in hits : i <= j
  IN  IF hits # {} /\ "filename" \notin DOMAIN p /\ "file" \notin DOMAIN p
      THEN [k \in DOMAIN p \cup {"filename"} |->
              IF k = "filename" THEN <<FromWordBoundary(ws[first])>> ELSE p[k]]
      ELSE p

\* extractParameters, lines 190-223: the command entry from the leading verb
\* (lines 194-197), then the key-value pairs, which may set the command entry
\* again (line 213; the value is kept as typed), then the filename.
extractParameters(text) ==
  LET verb == LeadingVerb(text)
      start == IF verb # "" THEN [k \in {"command"} |-> <<verb>>] ELSE EmptyParams
  IN  WithFilename(text.words, KeyValues(text.words, start))

\* delete params.command (line 177).
Without(p, key) == [k \in DOMAIN p \ {key} |-> p[k]]

NoCommand == [isNull |-> TRUE, command |-> "", params |-> EmptyParams]

Parsed(c, p) == [isNull |-> FALSE, command |-> c, params |-> p]

HelpSynonyms ==
  { <<"help">>, <<"commands">>, <<"help", "with", "commands">>, <<"show", "commands">> }

\* A help check on the text as it came, untrimmed.
IsHelpUntrimmed(text) == text.words \in HelpSynonyms /\ ~text.lead /\ ~text.trail

\* detectCommand, line 85: the literal help check on the trimmed text.
IsHelpLiteral(text) == trim(text).words \in HelpSynonyms

\* A detection that asks the leading verb and the key-value pairs before the
\* rules.
detectByVerb(text) ==
  IF IsHelpLiteral(text) THEN Parsed("help", EmptyParams)
  ELSE LET params == extractParameters(text)
           m == FirstMatch(1, trim(text).words)
       IN  IF Truthy(params, "command")
           THEN Parsed(params["command"][1], Without(params, "command"))
           ELSE IF m.ok THEN Parsed(m.command, m.params)
           ELSE NoCommand

\* detectCommand: ParsedCommand | null.
detectCommand(text) ==
  IF IsHelpLiteral(text) THEN Parsed("help", EmptyParams)
  ELSE LET m == FirstMatch(1, trim(text).words)
       IN  IF m.ok THEN Parsed(m.command, m.params)
           ELSE LET params == extractParameters(text)
                IN  IF Truthy(params, "command")
                    THEN Parsed(params["command"][1], Without(params, "command"))
                    ELSE NoCommand

\* The Coordinator's own help check, part_002 lines 29-30, on the raw command:
\*   /^(?:show|list|get)?\s*commands(?:\s+help)?$/i  or
\*   /^help(?:\s+with)?\s+commands$/i
IsSpecialCommand(text) ==
  LET ws == text.words
      tailOk(r) == r = <<"commands">> \/ r = <<"commands", "help">>
  IN  /\ ~text.trail
      /\ \/ tailOk(ws)
         \/ ~text.lead /\ StartsWith(ws, {"show", "list", "get"}) /\ tailOk(Tail(ws))
         \/ ~text.lead /\ ws \in { <<"help", "commands">>, <<"help", "with", "commands">> }

\* ----------------------------------------------------------------- inputs

Lead(t) == [t EXCEPT !.lead = TRUE]
Trail(t) == [t EXCEPT !.trail = TRUE]
Upper(t) == [t EXCEPT !.upper = TRUE]

\* The empty string (or an absent field): the only falsy command.
MissingText == Txt(<< >>)

BaseTexts ==
  { Txt(<<"help">>),
    Txt(<<"commands">>),
    Txt(<<"help", "with", "commands">>),
    Txt(<<"show", "commands">>),
    Txt(<<"list", "commands">>),
    Txt(<<"help", "commands">>),
    Txt(<<"create", "script", "foo", "with", "content:", "hi">>),
    Txt(<<"create", "file", "notes.txt">>),
    Txt(<<"create", "notes.txt">>),
    Txt(<<"list", "files">>),
    Txt(<<"analyze", "json:", "data">>),
    Txt(<<"analyze", "file", "notes.txt">>),
    Txt(<<"search", "cats", "in", "wiki">>),
    Txt(<<"search">>),
    Txt(<<"schedule", "meeting", "standup", "for", "noon">>),
    Txt(<<"schedule", "lunch">>),
    Txt(<<"read", "notes.txt">>),
    Txt(<<"read", "ghost.txt">>),
    Txt(<<"read">>),
    Txt(<<"delete", "ghost.txt">>),
    Txt(<<"delete", "notes.txt">>),
    Txt(<<"delete", "..notes.txt">>),
    Txt(<<"read", "empty.txt">>),
    Txt(<<"hello", "there">>),
    Txt(<<"hello", "command:", "foo">>),
    Txt(<<"command:", "help">>) }

\* The command texts a client sends: the base texts, and the help synonyms
\* in upper case and with surrounding whitespace.
CommandTexts ==
  BaseTexts \cup
  { Upper(Txt(<<"help">>)),
    Trail(Txt(<<"help">>)),
    Lead(Txt(<<"commands">>)),
    Lead(Trail(Upper(Txt(<<"help", "with", "commands">>)))),
    Trail(Txt(<<"show", "commands">>)),
    Lead(Txt(<<"read", "notes.txt">>)) }

\* ------------------------------------------------- registry and requests

\* src/config/agents.json: the ids of the capability registry.
RegisteredAgents == { "text-generator", "data-processor", "decision-maker", "script-launcher" }

\* A registry that knows every id (a lookup that never fails).
AnyAgent(agentId) == TRUE

\* agents.agents.find(a => a.id === agentId) finds a descriptor.
findAgent(agentId) == agentId \in RegisteredAgents

MOTHER_AGENT_ID == "mother-agent"

\* An id that is in no registry.
UnknownAgent == "ghost-agent"

\* JavaScript's undefined, where a string is expected.
Undefined == "<undefined>"

\* The requests the process may have in flight at once.
AllSlots == { "r1", "r2" }

\* One request at a time.
Slots == { "r1" }

\* Requests served over the life of the process.
MaxRequests == 1

VARIABLES
  apiKey,          \* OPENAI_API_KEY is configured
  memoryStore,     \* memory.ts: key -> conversation items
  analyticsStore,  \* analytics: key -> counters and events
  files,           \* the safe directory: stored name -> content
  coord,           \* per slot, the Coordinator request in flight
  hreq,            \* per slot, the execute-route request in flight
  served,          \* requests received so far
  appended,        \* key -> every entry appended since the key's last clear
  sanitized        \* the last call of sanitizeFilename: its input and output

vars ==
  << apiKey, memoryStore, analyticsStore, files, coord, hreq, served, appended,
     sanitized >>

\* ------------------------------------------------------ src/utils/memory.ts

HistoryCap == 100

\* A slice that keeps everything.
WholeSeq(seq, n) == seq

LastN(seq, n) == IF Len(seq) > n THEN SubSeq(seq, Len(seq) - n + 1, Len(seq)) ELSE seq

Item(role, content, agentId) == [role |-> role, content |-> content, agentId |-> agentId]

\* A write that starts from an empty conversation instead of the stored one.
addToMemoryAfresh(store, agentId, item) ==
  [k \in DOMAIN store \cup {agentId} |-> IF k = agentId THEN << item >> ELSE store[k]]

\* addToMemory: create the key when absent, push, keep the last 100.
addToMemory(store, agentId, item) ==
  LET old == IF agentId \in DOMAIN store THEN store[agentId] ELSE << >>
      new == LastN(Append(old, item), HistoryCap)
  IN  [k \in DOMAIN store \cup {agentId} |-> IF k = agentId THEN new ELSE store[k]]

\* A read that returns the oldest entries, slice(0, limit).
getOldest(store, agentId, limit) ==
  IF agentId \notin DOMAIN store THEN << >>
  ELSE SubSeq(store[agentId], 1, IF Len(store[agentId]) < limit THEN Len(store[agentId]) ELSE limit)

\* getMemory(agentId, limit): slice(-limit) of the stored conversation.
getMemory(store, agentId, limit) ==
  IF agentId \notin DOMAIN store THEN << >>
  ELSE IF limit = 0 THEN store[agentId]
  ELSE LastN(store[agentId], limit)

\* clearMemory: empty the conversation of a key that exists.
clearMemory(store, agentId) ==
  IF agentId \in DOMAIN store THEN [store EXCEPT ![agentId] = << >>] ELSE store

\* The entries appended to each key since its last clear, all of them.
Logged(log, agentId, item) ==
  [k \in DOMAIN log \cup {agentId} |->
     IF k = agentId
     THEN Append(IF agentId \in DOMAIN log THEN log[agentId] ELSE << >>, item)
     ELSE log[k]]

\* The history store together with the record of what was appended to it.
Mem == [store |-> memoryStore, log |-> appended]

\* A call of addToMemory.
Push(m, agentId, item) ==
  [store |-> addToMemory(m.store, agentId, item), log |-> Logged(m.log, agentId, item)]

\* The store as the calls of addToMemory in m leave it.
SetMem(m) == memoryStore' = m.store /\ appended' = m.log

EventCap == 100

NoAnalytics ==
  [totalRequests |-> 0, totalResponses |-> 0, totalErrors |-> 0,
   totalDelegations |-> 0, events |-> << >>]

\* trackEvent: create the key when absent, push the event, bump its counter,
\* keep the last 100 events.
trackEvent(store, agentId, eventType) ==
  LET old == IF agentId \in DOMAIN store THEN store[agentId] ELSE NoAnalytics
      new == [totalRequests |-> old.totalRequests + (IF eventType = "request" THEN 1 ELSE 0),
              totalResponses |-> old.totalResponses + (IF eventType = "response" THEN 1 ELSE 0),
              totalErrors |-> old.totalErrors + (IF eventType = "error" THEN 1 ELSE 0),
              totalDelegations |->
                old.totalDelegations + (IF eventType = "delegation" THEN 1 ELSE 0),
              events |-> LastN(Append(old.events, eventType), EventCap)]
  IN  [k \in DOMAIN store \cup {agentId} |-> IF k = agentId THEN new ELSE store[k]]

\* The error events recorded so far, over all keys (totalErrors, line 179).
RECURSIVE SumErrors(_, _)
SumErrors(store, keys) ==
  IF keys = {} THEN 0
  ELSE LET k == CHOOSE x \in keys : TRUE
       IN  store[k].totalErrors + SumErrors(store, keys \ {k})

TotalErrors(store) == SumErrors(store, DOMAIN store)

\* A field check that takes every value for present.
NeverFalsy(id) == FALSE

\* !agentId: the empty string and undefined are falsy.
Falsy(id) == id = "" \/ id = Undefined

\* ------------------------------------------------- the generative backend

\* What a fetch of the generative backend can come to: a 2xx reply, a non-2xx
\* reply, or an exception (the fetch rejects, the body is no JSON, or the
\* reply has no choices[0].message.content).
BackendOutcomes == { "ok", "http_error", "throw" }

\* The "agent" field of a delegation reply: absent, the literal null, or a
\* quoted string.
AgentAbsent == [lit |-> "absent", id |-> ""]
AgentNull == [lit |-> "null", id |-> ""]
AgentString(id) == [lit |-> "string", id |-> id]

ReplyAgents ==
  { AgentAbsent, AgentNull } \cup
  { AgentString(id) : id \in { "script-launcher", "data-processor", MOTHER_AGENT_ID,
                               UnknownAgent, "null" } }

\* The text of a 2xx delegation reply: a JSON object ("json"), text from
\* '{' to '}' that is no JSON ("badjson"), or prose around the fields.
ReplyForms == { "json", "badjson", "prose" }

\* No reply yet.
NoReply == [kind |-> "none", form |-> "prose", agent |-> AgentAbsent, hasReason |-> FALSE]

\* The delegation replies: a rejected fetch, a non-2xx reply whose body is a
\* JSON error object ("json") or is no JSON ("prose"), and the 2xx replies.
DelegationReplies ==
  { [NoReply EXCEPT !.kind = "throw"] } \cup
  { [NoReply EXCEPT !.kind = "http_error", !.form = f] : f \in { "json", "prose" } } \cup
  { [kind |-> "ok", form |-> f, agent |-> a, hasReason |-> r] :
      f \in ReplyForms, a \in ReplyAgents, r \in BOOLEAN }

\* ------------------------------------- part_002: determineAppropriateAgent

Decision(agent, reason, context, tier) ==
  [delegatedAgent |-> agent, reason |-> reason, context |-> context, tier |-> tier]

NoDecision == Decision("", "", "none", "none")

\* A mapping table that sends every mapped command type to text-generator.
MapToTextGenerator(commandType) ==
  IF commandType \in { "create", "analyze", "search", "schedule" }
  THEN "text-generator" ELSE ""

\* An empty mapping table (every command type goes to the backend).
NoDirectMapping(commandType) == ""

\* Lines 165-171: commandAgentMap; "" for list and for the unmapped types.
commandAgentMap(commandType) ==
  CASE commandType = "create" -> "script-launcher"
    [] commandType = "analyze" -> "data-processor"
    [] commandType = "search" -> "text-generator"
    [] commandType = "schedule" -> "decision-maker"
    [] OTHER -> ""

\* Lines 163-188: the decision taken without the backend, if any.
HasDirectMapping(parsedCommand) ==
  ~parsedCommand.isNull /\ commandAgentMap(parsedCommand.command) # ""

DirectDecision(parsedCommand) ==
  Decision(commandAgentMap(parsedCommand.command),
           "Command is best handled by this specialized agent", "parsedCommand", "map")

\* Lines 261-280: strict JSON parse of a reply that runs from '{' to '}'.
IsMotherId(id) == id = "mother-agent" \/ id = MOTHER_AGENT_ID

StrictJson(reply) ==
  IF reply.agent.lit = "null" \/ (reply.agent.lit = "string" /\ IsMotherId(reply.agent.id))
  THEN Decision("",
                IF reply.hasReason THEN "reply"
                ELSE "The Mother Agent will handle this request directly",
                "contextInfo", "json")
  ELSE Decision(IF reply.agent.lit = "string" THEN reply.agent.id ELSE Undefined,
                IF reply.hasReason THEN "reply" ELSE Undefined,
                "contextInfo", "json")

\* Lines 283-312: field-level extraction; "agent"\s*:\s*"([^"]+)" finds only a
\* quoted, non-empty agent.
agentMatch(reply) == reply.agent.lit = "string" /\ reply.agent.id # ""

reasonMatch(reply) == reply.hasReason

\* Field-level extraction that returns the agent it reads as it is.
FieldRegexRaw(reply) == Decision(reply.agent.id, "reply", "contextInfo", "regex")

FieldRegex(reply) ==
  IF IsMotherId(reply.agent.id) \/ reply.agent.id = "null"
  THEN Decision("", "reply", "contextInfo", "regex")
  ELSE Decision(reply.agent.id, "reply", "contextInfo", "regex")

\* Line 315.
StaticDefault == Decision("", "Handling directly as coordination agent", "none", "default")

\* A delegation step that parses the body without looking at the status.
DecisionIgnoringStatus(reply) == StrictJson(reply)

\* Lines 250-320: the decision from the backend's answer.  response.json()
\* (line 250) runs before the status check, so a body that is no JSON ends
\* in the catch block whatever the status.
DecisionFromReply(reply) ==
  CASE reply.kind = "throw" \/ (reply.kind = "http_error" /\ reply.form # "json") ->
         Decision("", "Error occurred, handling directly", "none", "catch")
    [] reply.kind = "http_error" ->
         Decision("", "Failed to determine appropriate agent due to API error", "none", "api")
    [] OTHER ->
         IF reply.form = "json" THEN StrictJson(reply)
         ELSE IF agentMatch(reply) /\ reasonMatch(reply) THEN FieldRegex(reply)
         ELSE StaticDefault

\* ------------------------------------------------ src/utils/fileSystem.ts

\* A name as sanitizeFilename sees it, character by character: a dot, a
\* slash, a backslash, a blank (any character outside [a-zA-Z0-9._-]) or a
\* letter.
NameChars == { ".", "/", "\\", " ", "a" }

\* Line 32, .replace(/\.\./g, ''): scanning from the left, every ".." is
\* dropped; what the removal brings together is not scanned again.
RECURSIVE StripDotDot(_)
StripDotDot(cs) ==
  IF Len(cs) < 2 THEN cs
  ELSE IF cs[1] = "." /\ cs[2] = "." THEN StripDotDot(Drop(cs, 2))
  ELSE << cs[1] >> \o StripDotDot(Tail(cs))

\* Line 33, .replace(/[\/\\]/g, '').
IsSeparator(c) == c \in { "/", "\\" }

StripSlashes(cs) == SelectSeq(cs, LAMBDA c : ~IsSeparator(c))

\* Line 34, .replace(/[^a-zA-Z0-9._-]/g, '_').
ReplaceInvalid(cs) == [i \in 1..Len(cs) |-> IF cs[i] = " " THEN "_" ELSE cs[i]]

\* sanitizeFilename, lines 29-38.
sanitizeFilename(cs) ==
  LET out == ReplaceInvalid(StripSlashes(StripDotDot(cs)))
  IN  IF out = << >> THEN << "unnamed_file" >> ELSE out

\* Where path.join(SAFE_DIR, name) points: the parent of the safe directory,
\* the safe directory itself, below an entry of it, or an entry of it.
pathJoin(name) ==
  CASE name = << ".", "." >> -> "parent"
    [] name = << "." >> \/ name = << >> -> "safe-dir"
    [] \E i \in 1..Len(name) : IsSeparator(name[i]) -> "elsewhere"
    [] OTHER -> "entry"

\* No call of sanitizeFilename has returned.
NoSanitize == [returned |-> FALSE, input |-> << >>, output |-> << >>]

\* The characters of a word of the vocabulary; a run of letters and digits
\* counts as one character.
Spell(w) ==
  CASE w = "notes.txt" -> << "notes", ".", "txt" >>
    [] w = "ghost.txt" -> << "ghost", ".", "txt" >>
    [] w = "empty.txt" -> << "empty", ".", "txt" >>
    [] w = "..notes.txt" -> << ".", ".", "notes", ".", "txt" >>
    [] OTHER -> << w >>

\* sanitizeFilename on a word of the vocabulary.
sanitizeWord(w) == CHOOSE v \in NameWords : Spell(v) = sanitizeFilename(Spell(w))

\* A file name: a name word, the extension appended to it ("" when none), and
\* whether generateUniqueFilename put a content hash into it.
FileName(word, ext) == [name |-> word, ext |-> ext, hashed |-> FALSE]

\* generateUniqueFilename, lines 76-88: name_<hash>ext.
generateUniqueFilename(filename) == [filename EXCEPT !.hashed = TRUE]

\* path.extname of a name of the model.
extname(filename) ==
  IF filename.ext # "" THEN filename.ext
  ELSE IF filename.name \in FileWords THEN ".txt"
  ELSE ""

\* isAllowedFileType, lines 58-71.
ALLOWED_EXTENSIONS ==
  { ".txt", ".md", ".json", ".csv", ".yaml", ".yml", ".js", ".jsx", ".ts", ".tsx",
    ".html", ".css", ".scss", ".py", ".rb", ".php", ".java", ".c", ".cpp", ".cs",
    ".env", ".config", ".ini", ".conf" }

isAllowedFileType(filename) == extname(filename) \in ALLOWED_EXTENSIONS

\* fs.existsSync(path.join(SAFE_DIR, name)).
existsSync(store, filename) == filename \in DOMAIN store

\* A file operation waiting on fs.promises.
NoOp == [op |-> "none", file |-> FileName("", ""), content |-> << >>, typed |-> FALSE]

FileOp(op, filename, content, typed) ==
  [op |-> op, file |-> filename, content |-> content, typed |-> typed]

\* ------------------------- execute/route.ts: handleSpecializedCommand

Resp(kind, by) == [kind |-> kind, by |-> by]

NoResp == Resp("", "")

\* What the synchronous part of handleSpecializedCommand comes to: an
\* exception, null, a message, or a file operation to wait for.
Throws == [kind |-> "throw", response |-> NoResp, op |-> NoOp]
ReturnsNull == [kind |-> "null", response |-> NoResp, op |-> NoOp]
Returns(kind, by) == [kind |-> "text", response |-> Resp(kind, by), op |-> NoOp]
Awaits(op) == [kind |-> "file", response |-> NoResp, op |-> op]

\* Lines 178-190: extensionMap[type.toLowerCase()] || '.txt'.
extensionMap(type) ==
  CASE type = "script" -> ".js"
    [] type = "file" -> ".txt"
    [] type = "document" -> ".md"
    [] type = "json" -> ".json"
    [] type = "html" -> ".html"
    [] type = "css" -> ".css"
    [] type = "python" -> ".py"
    [] type = "typescript" -> ".ts"
    [] type = "javascript" -> ".js"
    [] OTHER -> ".txt"

\* Lines 172-195 with saveFile lines 93-127: name.includes and
\* type.toLowerCase throw a TypeError on undefined.
ScriptCreate(p, store, by) ==
  IF ~Has(p, "name") THEN Throws
  ELSE LET word == p.name[1]
           hasDot == word \in FileWords
       IN  IF ~hasDot /\ ~Has(p, "type") THEN Throws
           ELSE LET filename == FileName(sanitizeWord(word),
                                         IF hasDot THEN "" ELSE extensionMap(p.type[1]))
                IN  IF ~isAllowedFileType(filename) THEN Returns("create-failed", by)
                    ELSE Awaits(FileOp("write", generateUniqueFilename(filename),
                                       IF Has(p, "content") THEN p.content ELSE << >>,
                                       Has(p, "type")))

\* Lines 229-237 and 313-320 with readFile lines 150-163.
ReadFile(p, store, by) ==
  IF ~Truthy(p, "filename") THEN Returns("specify-filename", by)
  ELSE LET filename == FileName(sanitizeWord(p.filename[1]), "")
       IN  IF ~existsSync(store, filename) THEN Returns("read-failed", by)
           ELSE Awaits(FileOp("read", filename, << >>, TRUE))

\* Lines 252-259 with deleteFile lines 210-223.
ScriptDelete(p, store, by) ==
  IF ~Truthy(p, "filename") THEN Returns("specify-filename", by)
  ELSE LET filename == FileName(sanitizeWord(p.filename[1]), "")
       IN  IF ~existsSync(store, filename) THEN Returns("delete-failed", by)
           ELSE Awaits(FileOp("unlink", filename, << >>, TRUE))

\* Lines 270-312: the file is read only when there is no inline content.
DataAnalyze(p, store, by) ==
  IF Truthy(p, "file") /\ ~Truthy(p, "content")
  THEN LET filename == FileName(sanitizeWord(p.file[1]), "")
       IN  IF ~existsSync(store, filename) THEN Returns("read-failed", by)
           ELSE Awaits(FileOp("analyze", filename, << >>, TRUE))
  ELSE Returns("analysis", by)

\* Lines 348-355: type.charAt throws a TypeError on undefined.
DecisionSchedule(p, by) == IF ~Has(p, "type") THEN Throws ELSE Returns("scheduled", by)

\* handleSpecializedCommand up to its first await.
handleSpecializedCommand(parsedCommand, agentId, store) ==
  LET command == parsedCommand.command
      p == parsedCommand.params
  IN  CASE agentId = "script-launcher" /\ command = "create" -> ScriptCreate(p, store, agentId)
        [] agentId = "script-launcher" /\ command = "list" ->
             Awaits(FileOp("readdir", FileName("", ""), << >>, TRUE))
        [] agentId = "script-launcher" /\ command = "read" -> ReadFile(p, store, agentId)
        [] agentId = "script-launcher" /\ command = "delete" -> ScriptDelete(p, store, agentId)
        [] agentId = "data-processor" /\ command = "analyze" -> DataAnalyze(p, store, agentId)
        [] agentId = "data-processor" /\ command = "read" -> ReadFile(p, store, agentId)
        [] agentId = "decision-maker" /\ command = "schedule" -> DecisionSchedule(p, agentId)
        [] agentId = "text-generator" /\ command = "search" -> Returns("search-results", agentId)
        [] OTHER -> ReturnsNull

\* The file store after a pending operation completes (ioOk: the fs call
\* did not fail).
FilesAfter(store, op, ioOk) ==
  CASE op.op = "write" /\ ioOk ->
         [f \in DOMAIN store \cup {op.file} |-> IF f = op.file THEN op.content ELSE store[f]]
    [] op.op = "unlink" /\ ioOk /\ op.file \in DOMAIN store ->
         [f \in DOMAIN store \ {op.file} |-> store[f]]
    [] OTHER -> store

\* A handler in which the unlink of a file that is gone is not caught.
AfterFileOpUncaught(store, op, ioOk, by) ==
  IF op.op = "unlink"
  THEN (IF ioOk /\ op.file \in DOMAIN store THEN Returns("deleted", by) ELSE Throws)
  ELSE Returns("file-list", by)

\* handleSpecializedCommand after the await: the message it returns, or the
\* TypeError of type.charAt (line 199) when the type is undefined.
AfterFileOp(store, op, ioOk, by) ==
  CASE op.op = "write" ->
         IF ~ioOk THEN Returns("create-failed", by)
         ELSE IF ~op.typed THEN Throws
         ELSE Returns("created", by)
    [] op.op = "readdir" -> IF ioOk THEN Returns("file-list", by) ELSE Returns("list-failed", by)
    [] op.op = "read" ->
         IF ioOk /\ op.file \in DOMAIN store /\ store[op.file] # << >>
         THEN Returns("file-content", by) ELSE Returns("read-failed", by)
    [] op.op = "analyze" ->
         IF ioOk /\ op.file \in DOMAIN store /\ store[op.file] # << >>
         THEN Returns("analysis", by) ELSE Returns("read-failed", by)
    [] op.op = "unlink" ->
         IF ioOk /\ op.file \in DOMAIN store
         THEN Returns("deleted", by) ELSE Returns("delete-failed", by)

\* ------------------------------------------------------- request records

EmptyStore == [k \in {} |-> << >>]

\* The JSON answer of the Coordinator route.
CResult(status, delegatedAgent, reason, response) ==
  [status |-> status, delegatedAgent |-> delegatedAgent, reason |-> reason,
   response |-> response]

\* The JSON answer of the execute route.
HResult(status, response) == [status |-> status, response |-> response]

NoHResult == [status |-> 0, response |-> NoResp]

\* A Coordinator request: its position, its locals (reply is the backend's
\* answer inside determineAppropriateAgent), and what it has done so far (the
\* fetches it issued, whether it ran detectCommand and
\* determineAppropriateAgent), with the history store as it found it and the
\* number of error events recorded before it.
IdleCoord ==
  [pc |-> "idle", command |-> MissingText, parsedCommand |-> NoCommand,
   reply |-> NoReply, decision |-> NoDecision, response |-> NoResp,
   result |-> [status |-> 0, delegatedAgent |-> "", reason |-> "", response |-> NoResp],
   delegationCalls |-> 0, directCalls |-> 0, handlerCalls |-> 0,
   detected |-> FALSE, decided |-> FALSE, memBefore |-> EmptyStore,
   errorsBefore |-> 0]

\* An execute-route request: its position, its locals, and what it has done,
\* with the file store as it found it and whether its file operation went
\* through.
IdleHandler ==
  [pc |-> "idle", origin |-> "none", agentId |-> "", command |-> MissingText,
   parsedCommand |-> NoCommand, op |-> NoOp, result |-> NoHResult,
   detectCalls |-> 0, dispatchCalls |-> 0, aiCalls |-> 0, memBefore |-> EmptyStore,
   errorsBefore |-> 0, filesBefore |-> EmptyStore, ioOk |-> TRUE]

UserItem == Item("user", "command", Undefined)

AgentItem(response, agentId) == Item("agent", response.kind, agentId)

\* ------------------------------------------- part_002: the Coordinator POST

\* Lines 16-73, to the first await: validation, the help check, detectCommand,
\* the API key check, the request event, the user entry, and the direct
\* mapping of determineAppropriateAgent (lines 163-188) or its backend fetch.
CoordReceive(s, command) ==
  /\ coord[s].pc = "idle"
  /\ hreq[s].pc = "idle"
  /\ served' = served + 1
  /\ \E parsed \in { detectCommand(command) } :
     \E base \in { [IdleCoord EXCEPT !.command = command, !.memBefore = memoryStore,
                                     !.errorsBefore = TotalErrors(analyticsStore)] } :
     \E seen \in { [base EXCEPT !.parsedCommand = parsed, !.detected = TRUE] } :
         IF command = MissingText
         THEN /\ coord' = [coord EXCEPT ![s] =
                   [base EXCEPT !.pc = "done",
                                !.result = CResult(400, "", "", Resp("missing-command", ""))]]
              /\ UNCHANGED << memoryStore, appended, analyticsStore >>
         ELSE IF IsSpecialCommand(command)
         THEN /\ coord' = [coord EXCEPT ![s] =
                   [base EXCEPT !.pc = "done",
                                !.result = CResult(200, "", "Providing command help",
                                                   Resp("help", "coordinator"))]]
              /\ UNCHANGED << memoryStore, appended, analyticsStore >>
         ELSE IF ~apiKey
         THEN /\ coord' = [coord EXCEPT ![s] =
                   [seen EXCEPT !.pc = "done",
                                !.result = CResult(500, "", "", Resp("no-api-key", ""))]]
              /\ UNCHANGED << memoryStore, appended, analyticsStore >>
         ELSE /\ analyticsStore' = trackEvent(analyticsStore, MOTHER_AGENT_ID, "request")
              /\ SetMem(Push(Mem, MOTHER_AGENT_ID, UserItem))
              /\ coord' = [coord EXCEPT ![s] =
                   IF HasDirectMapping(parsed)
                   THEN [seen EXCEPT !.pc = "delegated", !.decided = TRUE,
                                     !.decision = DirectDecision(parsed)]
                   ELSE [seen EXCEPT !.pc = "await_delegation", !.decided = TRUE,
                                     !.delegationCalls = 1]]
  /\ UNCHANGED << apiKey, sanitized, files, hreq >>

\* determineAppropriateAgent, lines 250-320: the backend's answer arrives.
CoordDelegationReply(s, reply) ==
  /\ coord[s].pc = "await_delegation"
  /\ coord' = [coord EXCEPT ![s].pc = "delegated", ![s].reply = reply,
                            ![s].decision = DecisionFromReply(reply)]
  /\ UNCHANGED << apiKey, sanitized, memoryStore, appended, analyticsStore, files, hreq, served >>

\* Lines 74-96 and getAgentResponse lines 326-378, to the next await: the
\* delegation event, then either the direct answer's backend fetch, or the
\* user entry and request event of the delegated agent followed by the
\* registry lookup and the fetch of the execute route.
CoordDispatch(s) ==
  /\ coord[s].pc = "delegated"
  /\ LET agent == coord[s].decision.delegatedAgent
         a1 == trackEvent(analyticsStore, MOTHER_AGENT_ID, "delegation")
         a2 == trackEvent(a1, agent, "request")
     IN  IF Falsy(agent) \/ agent = MOTHER_AGENT_ID
         THEN /\ analyticsStore' = a1
              /\ coord' = [coord EXCEPT ![s].pc = "await_direct", ![s].reply = NoReply,
                                        ![s].directCalls = @ + 1]
              /\ UNCHANGED << memoryStore, appended >>
         ELSE /\ SetMem(Push(Mem, agent, UserItem))
              /\ IF ~findAgent(agent)
                 THEN /\ analyticsStore' = trackEvent(a2, agent, "error")
                      /\ coord' = [coord EXCEPT ![s].pc = "respond", ![s].reply = NoReply,
                                                ![s].response =
                                                  Resp("agent-not-found", "coordinator")]
                 ELSE /\ analyticsStore' = a2
                      /\ coord' = [coord EXCEPT ![s].pc = "await_handler", ![s].reply = NoReply,
                                                ![s].handlerCalls = @ + 1]
  /\ UNCHANGED << apiKey, sanitized, files, hreq, served >>

\* A catch block that goes back to dispatch the command again.
HandlerRetried(s) ==
  /\ analyticsStore' =
       trackEvent(analyticsStore, coord[s].decision.delegatedAgent, "error")
  /\ coord' = [coord EXCEPT ![s].pc = "delegated"]
  /\ UNCHANGED << memoryStore, appended >>

\* A catch block that calls the handler endpoint a second time before it
\* falls back.
HandlerCalledAgain(s) ==
  /\ analyticsStore' =
       trackEvent(analyticsStore, coord[s].decision.delegatedAgent, "error")
  /\ coord' = [coord EXCEPT
                ![s].pc = IF coord[s].handlerCalls < 2 THEN "await_handler"
                          ELSE "await_fallback",
                ![s].handlerCalls = IF coord[s].handlerCalls < 2 THEN @ + 1 ELSE @,
                ![s].directCalls = IF coord[s].handlerCalls < 2 THEN @ ELSE @ + 1]
  /\ UNCHANGED << memoryStore, appended >>

\* getAgentResponse lines 406-423: the error event and the fallback fetch.
HandlerFailed(s) ==
  /\ analyticsStore' =
       trackEvent(analyticsStore, coord[s].decision.delegatedAgent, "error")
  /\ coord' = [coord EXCEPT ![s].pc = "await_fallback", ![s].directCalls = @ + 1]
  /\ UNCHANGED << memoryStore, appended >>

\* getAgentResponse lines 380-405: the execute route has answered.
CoordHandlerReturn(s) ==
  /\ coord[s].pc = "await_handler"
  /\ hreq[s].pc = "done"
  /\ LET agent == coord[s].decision.delegatedAgent
         response == hreq[s].result.response
     IN  IF hreq[s].result.status = 200
         THEN /\ SetMem(Push(Mem, agent, AgentItem(response, Undefined)))
              /\ analyticsStore' = trackEvent(analyticsStore, agent, "response")
              /\ coord' = [coord EXCEPT ![s].pc = "respond", ![s].response = response]
         ELSE HandlerFailed(s)
  /\ hreq' = [hreq EXCEPT ![s] = IdleHandler]
  /\ UNCHANGED << apiKey, sanitized, files, served >>

\* getAgentResponse line 368: the fetch of the execute route rejects.
CoordHandlerNetFail(s) ==
  /\ coord[s].pc = "await_handler"
  /\ hreq[s].pc = "idle"
  /\ HandlerFailed(s)
  /\ UNCHANGED << apiKey, sanitized, files, hreq, served >>

\* getMotherAgentResponse lines 488-539, and line 425 when it was called as
\* the fallback: the backend's answer to the direct question arrives.
CoordBackendReply(s, outcome) ==
  /\ coord[s].pc \in { "await_direct", "await_fallback" }
  /\ analyticsStore' =
       trackEvent(analyticsStore, MOTHER_AGENT_ID,
                  IF outcome = "ok" THEN "response" ELSE "error")
  /\ LET text == IF outcome = "ok" THEN "generated" ELSE "apology"
         kind == IF coord[s].pc = "await_fallback"
                 THEN (IF outcome = "ok" THEN "fallback-generated" ELSE "fallback-apology")
                 ELSE text
     IN  coord' = [coord EXCEPT ![s].pc = "respond",
                                ![s].response = Resp(kind, "coordinator")]
  /\ UNCHANGED << apiKey, sanitized, memoryStore, appended, files, hreq, served >>

\* Lines 97-136: the response entry, the two response events, the answer.
CoordRespond(s) ==
  /\ coord[s].pc = "respond"
  /\ LET agent == coord[s].decision.delegatedAgent
     IN  /\ SetMem(Push(Mem, MOTHER_AGENT_ID,
                         AgentItem(coord[s].response,
                                   IF Falsy(agent) THEN Undefined ELSE agent)))
         /\ analyticsStore' =
              trackEvent(trackEvent(analyticsStore,
                                    IF Falsy(agent) THEN MOTHER_AGENT_ID ELSE agent, "response"),
                         MOTHER_AGENT_ID, "response")
         /\ coord' = [coord EXCEPT ![s].pc = "done",
                                   ![s].result = CResult(200, agent, coord[s].decision.reason,
                                                         coord[s].response)]
  /\ UNCHANGED << apiKey, sanitized, files, hreq, served >>

\* The caller has its answer; the request is over.
CoordFinish(s) ==
  /\ coord[s].pc = "done"
  /\ coord' = [coord EXCEPT ![s] = IdleCoord]
  /\ UNCHANGED << apiKey, sanitized, memoryStore, appended, analyticsStore, files, hreq, served >>

\* ------------------------------------- execute/route.ts: the handler POST

\* Lines 72-99 and 105-131: the response entry, the response event, the answer.
HandlerAnswers(s, h, mem, an, response) ==
  /\ SetMem(Push(mem, h.agentId, AgentItem(response, Undefined)))
  /\ analyticsStore' = trackEvent(an, h.agentId, "response")
  /\ hreq' = [hreq EXCEPT ![s] = [h EXCEPT !.pc = "done", !.result = HResult(200, response)]]

\* Lines 133-160: the catch block: an error event and a 500 answer.
HandlerCatches(s, h, mem, an) ==
  /\ SetMem(mem)
  /\ analyticsStore' = trackEvent(an, h.agentId, "error")
  /\ hreq' = [hreq EXCEPT ![s] =
       [h EXCEPT !.pc = "done", !.result = HResult(500, Resp("exception", ""))]]

\* Line 103 with generateAgentResponse lines 375-426, to its fetch: without an
\* API key the simulated response, else the backend fetch.
HandlerGenerates(s, h, mem, an) ==
  IF ~apiKey
  THEN HandlerAnswers(s, h, mem, an, Resp("simulated", h.agentId))
  ELSE /\ SetMem(mem)
       /\ analyticsStore' = an
       /\ hreq' = [hreq EXCEPT ![s] = [h EXCEPT !.pc = "await_ai", !.aiCalls = @ + 1]]

\* Lines 15-103, to the first await: validation, the request event, the parsed
\* command of the context or detectCommand, the user entry, the registry
\* lookup, then handleSpecializedCommand up to its file operation, or
\* generateAgentResponse up to its fetch.
HandlerReceive(s, agentId, command, ctxParsed, origin) ==
  /\ hreq[s].pc = "idle"
  /\ \E parsed \in { IF ~ctxParsed.isNull THEN ctxParsed ELSE detectCommand(command) } :
     \E d \in { handleSpecializedCommand(parsed, agentId, files) } :
     \E a1 \in { trackEvent(analyticsStore, agentId, "request") } :
     \E m1 \in { Push(Mem, agentId, UserItem) } :
     \E base \in { [IdleHandler EXCEPT !.origin = origin, !.agentId = agentId,
                                       !.command = command, !.memBefore = memoryStore,
                                       !.errorsBefore = TotalErrors(analyticsStore),
                                       !.filesBefore = files] } :
     \E h \in { [base EXCEPT !.parsedCommand = parsed,
                             !.detectCalls = IF ctxParsed.isNull THEN 1 ELSE 0] } :
     \E hd \in { [h EXCEPT !.dispatchCalls = 1] } :
         IF Falsy(agentId) \/ command = MissingText
         THEN /\ analyticsStore' =
                   trackEvent(analyticsStore, IF Falsy(agentId) THEN "unknown" ELSE agentId,
                              "error")
              /\ hreq' = [hreq EXCEPT ![s] =
                   [base EXCEPT !.pc = "done",
                                !.result = HResult(400, Resp("missing-fields", ""))]]
              /\ UNCHANGED << memoryStore, appended >>
         ELSE IF ~findAgent(agentId)
         THEN /\ SetMem(m1)
              /\ analyticsStore' = trackEvent(a1, agentId, "error")
              /\ hreq' = [hreq EXCEPT ![s] =
                   [h EXCEPT !.pc = "done",
                             !.result = HResult(404, Resp("agent-not-found", ""))]]
         ELSE IF parsed.isNull THEN HandlerGenerates(s, h, m1, a1)
         ELSE CASE d.kind = "throw" -> HandlerCatches(s, hd, m1, a1)
                [] d.kind = "text" -> HandlerAnswers(s, hd, m1, a1, d.response)
                [] d.kind = "file" ->
                     /\ SetMem(m1)
                     /\ analyticsStore' = a1
                     /\ hreq' = [hreq EXCEPT ![s] = [hd EXCEPT !.pc = "await_file", !.op = d.op]]
                [] d.kind = "null" -> HandlerGenerates(s, hd, m1, a1)
  /\ UNCHANGED << apiKey, sanitized, files >>

\* A client posts to the execute route itself.
ClientHandlerRequest(s, agentId, command) ==
  /\ coord[s].pc = "idle"
  /\ served' = served + 1
  /\ HandlerReceive(s, agentId, command, NoCommand, "client")
  /\ UNCHANGED coord

\* The Coordinator's fetch (getAgentResponse line 368) reaches the execute
\* route: body { agentId, command, context }.
CoordHandlerArrive(s) ==
  /\ coord[s].pc = "await_handler"
  /\ HandlerReceive(s, coord[s].decision.delegatedAgent, coord[s].command,
                    IF coord[s].decision.context = "parsedCommand"
                    THEN coord[s].parsedCommand ELSE NoCommand,
                    "coord")
  /\ UNCHANGED << coord, served >>

\* handleSpecializedCommand after its await: the file operation completes and
\* the handler answers, or throws into the catch block.
HandlerFileReply(s, ioOk) ==
  /\ hreq[s].pc = "await_file"
  /\ LET h == [hreq[s] EXCEPT !.ioOk = ioOk]
         d == AfterFileOp(files, h.op, ioOk, h.agentId)
     IN  /\ files' = FilesAfter(files, h.op, ioOk)
         /\ IF d.kind = "throw"
            THEN HandlerCatches(s, h, Mem, analyticsStore)
            ELSE HandlerAnswers(s, h, Mem, analyticsStore, d.response)
  /\ UNCHANGED << apiKey, sanitized, coord, served >>

\* generateAgentResponse lines 428-435: the backend's answer arrives; a
\* non-2xx answer throws into the catch block.
HandlerAiReply(s, outcome) ==
  /\ hreq[s].pc = "await_ai"
  /\ IF outcome = "ok"
     THEN HandlerAnswers(s, hreq[s], Mem, analyticsStore,
                         Resp("generated", hreq[s].agentId))
     ELSE HandlerCatches(s, hreq[s], Mem, analyticsStore)
  /\ UNCHANGED << apiKey, sanitized, files, coord, served >>

\* The client of the execute route has its answer; the request is over.
HandlerFinish(s) ==
  /\ hreq[s].pc = "done"
  /\ hreq[s].origin = "client"
  /\ hreq' = [hreq EXCEPT ![s] = IdleHandler]
  /\ UNCHANGED << apiKey, sanitized, memoryStore, appended, analyticsStore, files, coord, served >>

\* ------------------------------------------------------ the specification

\* The agent ids a client names: the registered ones, an unknown one, none.
ClientAgentIds == RegisteredAgents \cup { UnknownAgent, "" }

ClientCommands == CommandTexts \cup { MissingText }

InitialFiles ==
  [f \in { FileName("notes.txt", ""), FileName("empty.txt", "") } |->
     IF f.name = "empty.txt" THEN << >> ELSE <<"hello">>]

Init ==
  /\ apiKey \in BOOLEAN
  /\ memoryStore = EmptyStore
  /\ analyticsStore = EmptyStore
  /\ files = InitialFiles
  /\ coord = [s \in AllSlots |-> IdleCoord]
  /\ hreq = [s \in AllSlots |-> IdleHandler]
  /\ served = 0
  /\ appended = EmptyStore
  /\ sanitized = NoSanitize

Next ==
  \E s \in Slots :
    \/ served < MaxRequests /\ \E command \in ClientCommands : CoordReceive(s, command)
    \/ \E reply \in DelegationReplies : CoordDelegationReply(s, reply)
    \/ CoordDispatch(s)
    \/ CoordHandlerArrive(s)
    \/ CoordHandlerReturn(s)
    \/ CoordHandlerNetFail(s)
    \/ \E outcome \in BackendOutcomes : CoordBackendReply(s, outcome)
    \/ CoordRespond(s)
    \/ CoordFinish(s)
    \/ /\ served < MaxRequests
       /\ \E agentId \in ClientAgentIds, command \in ClientCommands :
            ClientHandlerRequest(s, agentId, command)
    \/ \E ioOk \in BOOLEAN : HandlerFileReply(s, ioOk)
    \/ \E outcome \in BackendOutcomes : HandlerAiReply(s, outcome)
    \/ HandlerFinish(s)

Spec == Init /\ [][Next]_vars

\* ------------------------------------------------------------- properties

\* The (handler id, command type) combinations with a deterministic behaviour.
DispatchTable ==
  { <<"script-launcher", "create">>, <<"script-launcher", "list">>,
    <<"script-launcher", "read">>, <<"script-launcher", "delete">>,
    <<"data-processor", "analyze">>, <<"data-processor", "read">>,
    <<"decision-maker", "schedule">>, <<"text-generator", "search">> }

\* C1: a Coordinator request whose command is, ignoring case and surrounding
\* whitespace, one of the four help synonyms (help, commands, help with
\* commands, show commands) ends at once with the static help payload: no
\* delegation decision is computed, and neither the handler endpoint nor the
\* generative backend is called.
HelpShortCircuits ==
  \A s \in Slots :
    (coord[s].pc # "idle" /\ trim(coord[s].command).words \in HelpSynonyms) =>
      /\ coord[s].pc = "done"
      /\ coord[s].result.status = 200
      /\ coord[s].result.response = Resp("help", "coordinator")
      /\ ~coord[s].decided
      /\ coord[s].delegationCalls = 0
      /\ coord[s].directCalls = 0
      /\ coord[s].handlerCalls = 0

\* C2: every Coordinator request ends in a success result carrying a response
\* text or, only when the command text is missing, in a client validation
\* error; no other error response reaches the caller.
CoordinatorAlwaysAnswers ==
  \A s \in Slots :
    coord[s].pc = "done" =>
      \/ coord[s].result.status = 200 /\ coord[s].result.response.kind # ""
      \/ coord[s].result.status = 400 /\ coord[s].command = MissingText

\* C3: when the backend answers the delegation call with a non-2xx status,
\* determineAppropriateAgent returns delegatedAgent "" with a reason that tells
\* of the error (the API-error reason when the body is the backend's JSON
\* error object, the catch block's reason when the body is no JSON), and the
\* request completes with a success result whose delegatedAgent is "".
NonOkDelegationHandledDirectly ==
  \A s \in Slots :
    /\ coord[s].reply.kind = "http_error" =>
         /\ coord[s].pc = "delegated"
         /\ coord[s].decision.delegatedAgent = ""
         /\ IF coord[s].reply.form = "json"
            THEN /\ coord[s].decision.tier = "api"
                 /\ coord[s].decision.reason =
                      "Failed to determine appropriate agent due to API error"
            ELSE /\ coord[s].decision.tier = "catch"
                 /\ coord[s].decision.reason = "Error occurred, handling directly"
    /\ coord[s].decision.tier \in { "api", "catch" } =>
         /\ coord[s].pc \in { "delegated", "await_direct", "respond", "done" }
         /\ coord[s].handlerCalls = 0
         /\ coord[s].pc = "done" =>
              /\ coord[s].result.status = 200
              /\ coord[s].result.delegatedAgent = ""
              /\ coord[s].result.response.kind # ""

\* C3 witness: a request whose delegation call got a non-2xx JSON reply has
\* completed with a success result and no delegated agent.
NonOkDelegationCompleted ==
  \E s \in Slots :
    /\ coord[s].pc = "done"
    /\ coord[s].decision.tier = "api"
    /\ coord[s].delegationCalls = 1
    /\ coord[s].result.status = 200
    /\ coord[s].result.delegatedAgent = ""

\* C4: for a structured command of type create, analyze, search or schedule
\* the delegation decision is the statically mapped handler and the
\* delegation step calls the backend not at all; in every other case the
\* delegation step calls the backend exactly once.
DirectMappingSkipsBackend ==
  \A s \in Slots :
    coord[s].decided =>
      LET c == coord[s].parsedCommand
          agent == coord[s].decision.delegatedAgent
      IN  CASE ~c.isNull /\ c.command = "create" ->
                 coord[s].delegationCalls = 0 /\ agent = "script-launcher"
            [] ~c.isNull /\ c.command = "analyze" ->
                 coord[s].delegationCalls = 0 /\ agent = "data-processor"
            [] ~c.isNull /\ c.command = "search" ->
                 coord[s].delegationCalls = 0 /\ agent = "text-generator"
            [] ~c.isNull /\ c.command = "schedule" ->
                 coord[s].delegationCalls = 0 /\ agent = "decision-maker"
            [] OTHER -> coord[s].delegationCalls = 1

\* C4 witness: an analyze command was answered through data-processor without
\* a delegation call.
AnalyzeMappedDirectly ==
  \E s \in Slots :
    /\ coord[s].pc = "done"
    /\ ~coord[s].parsedCommand.isNull
    /\ coord[s].parsedCommand.command = "analyze"
    /\ coord[s].result.delegatedAgent = "data-processor"
    /\ coord[s].delegationCalls = 0

\* C5: a 2xx delegation reply is read by three tiers in order: a reply that
\* parses as JSON is decided by its fields; otherwise field-level extraction
\* decides when it finds both a quoted agent and a reason; otherwise the
\* decision is the static default with an empty target and the reason
\* 'Handling directly as coordination agent'.  In the first tier the literal
\* null and the Coordinator's own id, in the second the text null and the
\* Coordinator's own id, give an empty target.
ReplyTiers ==
  \A s \in Slots :
    coord[s].reply.kind = "ok" =>
      LET r == coord[s].reply
          d == coord[s].decision
          quoted == r.agent.lit = "string" /\ r.agent.id # ""
          own == r.agent.lit = "string" /\ r.agent.id = "mother-agent"
      IN  IF r.form = "json"
          THEN /\ d.tier = "json"
               /\ (r.agent.lit = "null" \/ own) => d.delegatedAgent = ""
               /\ (r.agent.lit = "string" /\ ~own) => d.delegatedAgent = r.agent.id
          ELSE IF quoted /\ r.hasReason
          THEN /\ d.tier = "regex"
               /\ d.reason = "reply"
               /\ d.delegatedAgent = IF own \/ r.agent.id = "null" THEN "" ELSE r.agent.id
          ELSE /\ d.tier = "default"
               /\ d.delegatedAgent = ""
               /\ d.reason = "Handling directly as coordination agent"

\* C5 witness: a reply that is no JSON but names the Coordinator's own id and
\* a reason was decided by the second tier with an empty target.
SecondTierNamedCoordinator ==
  \E s \in Slots :
    /\ coord[s].pc = "delegated"
    /\ coord[s].reply.kind = "ok"
    /\ coord[s].reply.form = "badjson"
    /\ coord[s].reply.agent = AgentString("mother-agent")
    /\ coord[s].reply.hasReason
    /\ coord[s].decision.tier = "regex"
    /\ coord[s].decision.delegatedAgent = ""

\* C6: Handler Dispatch produces a result exactly for the combinations of the
\* dispatch table and null for every other one; the handler's generative path
\* runs if and only if there is no structured command or dispatch returned
\* null, and a request dispatch answered makes no backend call.
DispatchIsTableLookup ==
  \A s \in Slots :
    (hreq[s].pc \in { "await_file", "await_ai", "done" } /\ hreq[s].result.status \notin { 400, 404 }) =>
      LET h == hreq[s]
          inTable == ~h.parsedCommand.isNull
                       /\ << h.agentId, h.parsedCommand.command >> \in DispatchTable
      IN  /\ h.dispatchCalls = IF h.parsedCommand.isNull THEN 0 ELSE 1
          /\ inTable =>
               /\ h.aiCalls = 0
               /\ h.pc \in { "await_file", "done" }
               /\ h.pc = "done" =>
                    h.result.status = 200 /\ h.result.response.kind \notin { "simulated", "generated" }
          /\ ~inTable =>
               /\ h.pc \in { "await_ai", "done" }
               /\ h.aiCalls = 1 \/ h.result.response.kind = "simulated"

\* C7: for every structured command the Pattern Extractor produces and every
\* registered handler, Handler Dispatch does not throw, and no handler request
\* that dispatch took on ends in an error response.
DispatchNeverThrows ==
  \A s \in Slots :
    hreq[s].dispatchCalls = 1 =>
      /\ handleSpecializedCommand(hreq[s].parsedCommand, hreq[s].agentId, files).kind # "throw"
      /\ (hreq[s].pc = "done" /\ hreq[s].aiCalls = 0) => hreq[s].result.status = 200

\* C8: a request with a missing required field (no command for the
\* Coordinator; no agentId or no command for the execute route) is answered at
\* once with a client error: no pattern extraction, no delegation, no
\* dispatch, no backend call, and the history store is as the request found it.
MissingFieldsRejectedAtOnce ==
  \A s \in Slots :
    /\ (coord[s].pc # "idle" /\ coord[s].command = MissingText) =>
         /\ coord[s].pc = "done"
         /\ coord[s].result.status = 400
         /\ ~coord[s].detected
         /\ ~coord[s].decided
         /\ coord[s].delegationCalls = 0
         /\ coord[s].directCalls = 0
         /\ coord[s].handlerCalls = 0
         /\ memoryStore = coord[s].memBefore
    /\ (hreq[s].pc # "idle" /\ (hreq[s].agentId = "" \/ hreq[s].command = MissingText)) =>
         /\ hreq[s].pc = "done"
         /\ hreq[s].result.status = 400
         /\ hreq[s].detectCalls = 0
         /\ hreq[s].dispatchCalls = 0
         /\ hreq[s].aiCalls = 0
         /\ memoryStore = hreq[s].memBefore

\* C8 witness: an execute-route request with a command but no agentId was
\* answered with the client error.
MissingAgentIdRejected ==
  \E s \in Slots :
    /\ hreq[s].pc = "done"
    /\ hreq[s].agentId = ""
    /\ hreq[s].command # MissingText
    /\ hreq[s].result.status = 400

\* C9: dispatch and the handler's generative path run only for an id of the
\* registry: an execute-route request naming an unknown id is answered 404
\* before any dispatch or generative call, and a delegation decision naming
\* an unknown id causes no call of the execute route.
OnlyRegisteredAgentsRun ==
  \A s \in Slots :
    /\ ( \/ hreq[s].dispatchCalls > 0
         \/ hreq[s].aiCalls > 0
         \/ hreq[s].pc \in { "await_file", "await_ai" }
         \/ hreq[s].result.status = 200 ) =>
         hreq[s].agentId \in RegisteredAgents
    /\ ( /\ hreq[s].pc # "idle"
         /\ hreq[s].agentId \notin RegisteredAgents \cup { "" }
         /\ hreq[s].command # MissingText ) =>
         /\ hreq[s].pc = "done"
         /\ hreq[s].result.status = 404
         /\ hreq[s].dispatchCalls = 0
         /\ hreq[s].aiCalls = 0
    /\ coord[s].decision.delegatedAgent \notin RegisteredAgents =>
         /\ coord[s].handlerCalls = 0
         /\ coord[s].pc # "await_handler"

\* C9 witness: an execute-route request naming an unknown id was answered 404
\* with neither dispatch nor a generative call.
UnknownAgentRejected ==
  \E s \in Slots :
    /\ hreq[s].pc = "done"
    /\ hreq[s].agentId = UnknownAgent
    /\ hreq[s].result.status = 404
    /\ hreq[s].dispatchCalls = 0
    /\ hreq[s].aiCalls = 0

\* C10: a request that ends in a failure response leaves the history of every
\* key as the request found it, and a delegation decision naming an unknown
\* id creates no history entry under that id.
FailuresLeaveHistoryAlone ==
  \A s \in Slots :
    /\ (hreq[s].pc = "done" /\ hreq[s].origin = "client" /\ hreq[s].result.status # 200) =>
         memoryStore = hreq[s].memBefore
    /\ (coord[s].pc = "done" /\ coord[s].result.status # 200) =>
         memoryStore = coord[s].memBefore
    /\ ( /\ coord[s].pc \in { "respond", "done" }
         /\ coord[s].decision.delegatedAgent \notin RegisteredAgents \cup { "", MOTHER_AGENT_ID }
         /\ coord[s].decision.delegatedAgent \notin DOMAIN coord[s].memBefore ) =>
         coord[s].decision.delegatedAgent \notin DOMAIN memoryStore

\* The position of a Coordinator request in its chain of awaited operations:
\* extraction done and delegation awaited (1), delegated (2), dispatch awaited
\* (3), the fallback answer awaited (4), answer in hand (5), responded (6).
StepOf(pc) ==
  CASE pc = "idle" -> 0
    [] pc = "await_delegation" -> 1
    [] pc = "delegated" -> 2
    [] pc \in { "await_direct", "await_handler" } -> 3
    [] pc = "await_fallback" -> 4
    [] pc = "respond" -> 5
    [] pc = "done" -> 6

\* Every step of a Coordinator request moves it forward; a request that has
\* answered only leaves, and changes no store on its way out.
PhaseStep ==
  \A s \in Slots :
    coord'[s] # coord[s] =>
      IF coord[s].pc = "done"
      THEN /\ coord'[s] = IdleCoord
           /\ memoryStore' = memoryStore
           /\ analyticsStore' = analyticsStore
           /\ hreq'[s] = hreq[s]
      ELSE /\ StepOf(coord'[s].pc) > StepOf(coord[s].pc)
           /\ coord'[s].delegationCalls >= coord[s].delegationCalls
           /\ coord'[s].handlerCalls >= coord[s].handlerCalls
           /\ coord'[s].directCalls >= coord[s].directCalls

\* A call of the execute route made for a Coordinator request is in flight
\* only while that request waits for it.
OneOperationAtATime ==
  \A s \in Slots :
    /\ (hreq[s].pc # "idle" /\ hreq[s].origin = "coord") => coord[s].pc = "await_handler"
    /\ coord[s].delegationCalls <= 1
    /\ coord[s].handlerCalls <= 1
    /\ coord[s].directCalls <= 1

\* C11: a Coordinator request goes through its phases in the order received,
\* extracted, delegated, dispatched, responded, each at most once and never
\* back; once it has answered (a result or an error) it makes no further
\* call and appends nothing; and it never runs two operations at a time.
PhasesInOrder == []OneOperationAtATime /\ [][PhaseStep]_vars

\* C11 witness: a request was delegated, its call of the execute route
\* failed, the fallback answered, and the request has responded.
AllPhasesPassed ==
  \E s \in Slots :
    /\ coord[s].pc = "done"
    /\ coord[s].result.status = 200
    /\ coord[s].delegationCalls = 1
    /\ coord[s].handlerCalls = 1
    /\ coord[s].directCalls = 1

\* ------------------------------------------- the history store on its own

\* The keys written in a run of the store on its own.
MemoryKeys == { MOTHER_AGENT_ID, "script-launcher" }

\* Appends to one key between two clears.
MaxAppends == 102

\* The limits a reader passes.
ReadLimits == { 2, 5, 10, 100, 150 }

\* addToMemory(agentId, item): the n-th entry of a key since its last clear
\* carries n as its content; user and agent entries alternate.
MemAppend(agentId) ==
  \E n \in { (IF agentId \in DOMAIN appended THEN Len(appended[agentId]) ELSE 0) + 1 } :
    /\ n <= MaxAppends
    /\ SetMem(Push(Mem, agentId,
                   Item(IF n % 2 = 1 THEN "user" ELSE "agent", ToString(n), Undefined)))
    /\ UNCHANGED << apiKey, sanitized, analyticsStore, files, coord, hreq, served >>

\* clearMemory(agentId).
MemClear(agentId) ==
  /\ memoryStore' = clearMemory(memoryStore, agentId)
  /\ appended' = [k \in DOMAIN appended |-> IF k = agentId THEN << >> ELSE appended[k]]
  /\ UNCHANGED << apiKey, sanitized, analyticsStore, files, coord, hreq, served >>

MemoryInit == Init /\ apiKey

MemoryNext == \E agentId \in MemoryKeys : MemAppend(agentId) \/ MemClear(agentId)

\* Any sequence of addToMemory and clearMemory calls.
MemorySpec == MemoryInit /\ [][MemoryNext]_vars

\* C12: after any sequence of addToMemory and clearMemory calls the history
\* of each key holds at most 100 entries, and they are the most recent
\* entries appended to the key since its last clear, oldest first.
HistoryIsRecentAppends ==
  /\ DOMAIN memoryStore = DOMAIN appended
  /\ \A k \in DOMAIN memoryStore :
       LET h == memoryStore[k]
           log == appended[k]
       IN  /\ Len(h) <= 100
           /\ Len(h) = IF Len(log) < 100 THEN Len(log) ELSE 100
           /\ \A i \in 1..Len(h) : h[i] = log[Len(log) - Len(h) + i]

\* C12 witness: more than 100 entries were appended to a key and its history
\* holds the last 100 of them.
HistoryTrimmed ==
  \E k \in DOMAIN memoryStore :
    /\ Len(appended[k]) = 102
    /\ Len(memoryStore[k]) = 100
    /\ memoryStore[k][1].content = "3"
    /\ memoryStore[k][100].content = "102"

\* C13: after a user entry and then a handler entry were appended to a key,
\* reading the key with a limit of at least 2 returns the two entries as the
\* last two elements, in that order, role and content as appended.
HistoryRoundTrip ==
  \A k \in DOMAIN appended :
    LET log == appended[k]
        n == Len(log)
    IN  (n >= 2 /\ log[n - 1].role = "user" /\ log[n].role = "agent") =>
          \A limit \in ReadLimits :
            LET r == getMemory(memoryStore, k, limit)
            IN  /\ Len(r) >= 2
                /\ Len(r) <= limit
                /\ r[Len(r) - 1] = log[n - 1]
                /\ r[Len(r)] = log[n]

\* C13 witness: a user entry and a handler entry were appended to a full
\* history and a read with limit 2 returns exactly the two.
ExchangeReadBack ==
  \E k \in DOMAIN appended :
    /\ Len(appended[k]) = 102
    /\ getMemory(memoryStore, k, 2) =
         << Item("user", "101", Undefined), Item("agent", "102", Undefined) >>

\* ------------------------------------------------- requests side by side

\* Requests received in a run with two requests in flight.
MaxConcurrent == 2

ConcurrentCommands == { Txt(<<"list", "files">>) }

\* The backend delegates to script-launcher.
ConcurrentReplies ==
  { [kind |-> "ok", form |-> "json", agent |-> AgentString("script-launcher"),
     hasReason |-> TRUE] }

\* Coordinator requests, with the execute-route requests they make,
\* interleaved at their awaits.
ConcurrentNext ==
  \E s \in AllSlots :
    \/ served < MaxConcurrent /\ \E command \in ConcurrentCommands : CoordReceive(s, command)
    \/ \E reply \in ConcurrentReplies : CoordDelegationReply(s, reply)
    \/ CoordDispatch(s)
    \/ CoordHandlerArrive(s)
    \/ CoordHandlerReturn(s)
    \/ CoordHandlerNetFail(s)
    \/ CoordBackendReply(s, "ok")
    \/ CoordRespond(s)
    \/ CoordFinish(s)
    \/ HandlerFileReply(s, TRUE)

ConcurrentSpec == MemoryInit /\ [][ConcurrentNext]_vars

\* Whether a is the tail of b.
IsSuffix(a, b) ==
  /\ Len(a) <= Len(b)
  /\ \A i \in 1..Len(a) : a[i] = b[Len(b) - Len(a) + i]

\* C14: with requests interleaving at their awaits the history of each key is
\* the sequence of the appends made to it, in the order they were made, cut
\* to the last 100 (none lost, repeated or out of order), and a read returns
\* whole entries of that one sequence.
InterleavedAppendsKeepOrder ==
  /\ DOMAIN memoryStore = DOMAIN appended
  /\ \A k \in DOMAIN appended :
       /\ Len(memoryStore[k]) = (IF Len(appended[k]) < 100 THEN Len(appended[k]) ELSE 100)
       /\ IsSuffix(memoryStore[k], appended[k])
       /\ \A limit \in ReadLimits :
            /\ IsSuffix(getMemory(memoryStore, k, limit), appended[k])
            /\ Len(getMemory(memoryStore, k, limit)) =
                 (IF Len(memoryStore[k]) < limit THEN Len(memoryStore[k]) ELSE limit)

\* C14 witness: two requests are in flight, both dispatched to the same
\* handler, and the entries of both are in that handler's history.
TwoRequestsShareAKey ==
  /\ \A s \in AllSlots :
       /\ coord[s].pc = "await_handler"
       /\ coord[s].decision.delegatedAgent = "script-launcher"
       /\ hreq[s].pc = "await_file"
  /\ Len(memoryStore["script-launcher"]) = 4
  /\ Len(memoryStore[MOTHER_AGENT_ID]) = 2

\* ------------------------------------------------ attribution of the answer

\* The handler whose text the answer is: "" when the Coordinator wrote it.
Producer(response) == IF response.by = "coordinator" THEN "" ELSE response.by

\* C15: every completed Coordinator request names, in delegatedAgent and in
\* the agentId of the response entry of the Coordinator's history, the handler
\* that produced the text, and names none when the Coordinator itself produced
\* it (also when it answers in place of a failed or not-found handler).
DelegatedAgentIsProducer ==
  \A s \in Slots :
    (coord[s].pc = "done" /\ coord[s].result.status = 200) =>
      LET producer == Producer(coord[s].result.response)
          named == coord[s].result.delegatedAgent
          history == memoryStore[MOTHER_AGENT_ID]
          stored == history[Len(history)].agentId
      IN  /\ IF producer = "" THEN Falsy(named) ELSE named = producer
          /\ coord[s].decided =>
               IF producer = "" THEN Falsy(stored) ELSE stored = producer

\* --------------------------------------------- one exchange, recorded once

\* The entries of a role that a key's history gained since the request began
\* (the histories stay below the cap here, so nothing was trimmed away).
RECURSIVE CountRole(_, _)
CountRole(seq, role) ==
  IF seq = << >> THEN 0
  ELSE (IF Head(seq).role = role THEN 1 ELSE 0) + CountRole(Tail(seq), role)

Gained(before, agentId, role) ==
  CountRole(getMemory(memoryStore, agentId, HistoryCap), role)
    - CountRole(getMemory(before, agentId, HistoryCap), role)

\* C16: a completed Coordinator request has appended its exchange once per
\* key: the Coordinator's history gained one user entry and one response
\* entry, and when the command was dispatched to a handler, the handler's
\* history gained one user entry and one response entry.
ExchangeRecordedOnce ==
  \A s \in Slots :
    (coord[s].pc = "done" /\ coord[s].result.status = 200 /\ coord[s].decided) =>
      /\ Gained(coord[s].memBefore, MOTHER_AGENT_ID, "user") = 1
      /\ Gained(coord[s].memBefore, MOTHER_AGENT_ID, "agent") = 1
      /\ (coord[s].handlerCalls = 1 /\ Producer(coord[s].result.response) # "") =>
           /\ Gained(coord[s].memBefore, coord[s].decision.delegatedAgent, "user") = 1
           /\ Gained(coord[s].memBefore, coord[s].decision.delegatedAgent, "agent") = 1

\* ------------------------------------------------ recovered errors, counted

\* The recoveries of a finished Coordinator request: a delegation call that
\* failed or was refused (the catch block, the status check), a delegation
\* reply no agent could be read from, a failed call of the handler, a failed
\* direct answer.
RecoveredInDelegation(c) == c.decision.tier \in { "api", "catch", "default" }

RecoveredInAnswer(c) ==
  c.result.response.kind \in
    { "agent-not-found", "fallback-generated", "fallback-apology", "apology" }

\* C17: every recovered error leaves an error event: a request that went
\* through a failed delegation call, an unreadable delegation reply, a failed
\* handler call or a failed direct answer has recorded at least one error
\* event by the time it completes, and so has an execute-route request whose
\* dispatch returned nothing.
RecoveredErrorsAreRecorded ==
  \A s \in Slots :
    /\ ( /\ coord[s].pc = "done" /\ coord[s].result.status = 200
         /\ RecoveredInDelegation(coord[s]) \/ RecoveredInAnswer(coord[s]) ) =>
         TotalErrors(analyticsStore) > coord[s].errorsBefore
    /\ ( /\ hreq[s].pc = "done" /\ hreq[s].result.status = 200
         /\ hreq[s].dispatchCalls = 1
         /\ hreq[s].result.response.kind \in { "generated", "simulated" } ) =>
         TotalErrors(analyticsStore) > hreq[s].errorsBefore

\* ------------------------------------------------- what detectCommand returns

\* The command names of a ParsedCommand.
KnownCommands ==
  { "create", "list", "analyze", "search", "schedule", "read", "delete", "help" }

\* The lower-case parameter keys: those of the rules (lines 97-168), a
\* lower-cased key of a key-value pair (line 204), filename (line 219).
LowerCaseKeys ==
  { "type", "name", "content", "location", "file", "query", "source",
    "description", "time", "filename" } \cup { Stem(w) : w \in KeyWords }

\* The result of the detectCommand call a request made, if it made one.
Detected(s) ==
  IF coord[s].detected THEN coord[s].parsedCommand
  ELSE IF hreq[s].detectCalls = 1 THEN hreq[s].parsedCommand
  ELSE NoCommand

\* C20: whenever detectCommand returns a command, its command is one of
\* create, list, analyze, search, schedule, read, delete, help, and every key
\* of its params is a lower-case token.
ParsedCommandWellFormed ==
  \A s \in Slots :
    ~Detected(s).isNull =>
      /\ Detected(s).command \in KnownCommands
      /\ DOMAIN Detected(s).params \subseteq LowerCaseKeys

\* ---------------------------------------------------------- rule precedence

\* The text a request gave to detectCommand.
DetectedText(s) == IF coord[s].detected THEN coord[s].command ELSE hreq[s].command

RanDetect(s) == coord[s].detected \/ hreq[s].detectCalls = 1

\* The rules, by their place in PatternOrder, that match a text.
MatchingRules(text) ==
  { i \in 1..Len(PatternOrder) : MatchPattern(PatternOrder[i], trim(text).words).ok }

\* What the ordered rules make of a text: the first rule that matches, with
\* its parameters; the leading-verb fallback only when none matches.
ByRules(text) ==
  LET hits == MatchingRules(text)
      first == CHOOSE i \in hits : \A j \in hits : i <= j
      fallback == extractParameters(text)
  IN  IF hits # {}
      THEN Parsed(PatternOrder[first],
                  MatchPattern(PatternOrder[first], trim(text).words).params)
      ELSE IF Truthy(fallback, "command")
      THEN Parsed(fallback["command"][1], Without(fallback, "command"))
      ELSE NoCommand

\* C18: past the literal help check, detectCommand classifies a text by the
\* first of create, list, analyze, search, schedule, read, delete whose rule
\* matches it, with that rule's parameters; the leading-verb fallback decides
\* only when no rule matches, so a text that matches the search rule and
\* begins with a fallback verb is classified by the search rule.
FirstMatchingRuleWins ==
  \A s \in Slots :
    (RanDetect(s) /\ ~IsHelpLiteral(DetectedText(s))) =>
      /\ Detected(s) = ByRules(DetectedText(s))
      /\ (MatchingRules(DetectedText(s)) # {}) =>
           /\ ~Detected(s).isNull
           /\ \E i \in MatchingRules(DetectedText(s)) :
                /\ Detected(s).command = PatternOrder[i]
                /\ \A j \in MatchingRules(DetectedText(s)) : i <= j

\* C18 witness: "search cats in wiki" begins with a fallback verb and matches
\* the search rule; the request that parsed it holds the search rule's query.
SearchRuleBeatsFallback ==
  \E s \in Slots :
    /\ RanDetect(s)
    /\ DetectedText(s) = Txt(<<"search", "cats", "in", "wiki">>)
    /\ LeadingVerb(DetectedText(s)) = "search"
    /\ MatchingRules(DetectedText(s)) = { 4 }
    /\ Detected(s).command = "search"
    /\ Detected(s).params["query"] = <<"cats", "in", "wiki">>

\* ------------------------------------------------------ the literal help check

\* C19: for help, commands, help with commands and show commands, in any
\* letter case and with any surrounding whitespace, detectCommand returns the
\* command help with empty params whatever the rules would make of the text;
\* for every other text the literal check returns nothing and the result is
\* that of the rules and the fallback.
HelpLiteralOnly ==
  \A s \in Slots :
    RanDetect(s) =>
      IF trim(DetectedText(s)).words \in
           { <<"help">>, <<"commands">>, <<"help", "with", "commands">>,
             <<"show", "commands">> }
      THEN Detected(s) = Parsed("help", EmptyParams)
      ELSE Detected(s) = ByRules(DetectedText(s))

\* C19 witness: "show commands" followed by whitespace matches the list rule
\* and was answered by the literal check all the same.
HelpSynonymDetected ==
  \E s \in Slots :
    /\ RanDetect(s)
    /\ DetectedText(s) = Trail(Txt(<<"show", "commands">>))
    /\ MatchingRules(DetectedText(s)) # {}
    /\ Detected(s) = Parsed("help", EmptyParams)

\* ------------------------------------------------------- no verb, no command

\* C21: when no rule matches a text and the text does not begin, after an
\* optional "please" and "can you", with one of the verbs create, list,
\* analyze, search, read, delete, schedule, detectCommand returns null,
\* whatever key-value pairs or file names the text holds.
NoVerbMeansNull ==
  \A s \in Slots :
    ( /\ RanDetect(s)
      /\ ~IsHelpLiteral(DetectedText(s))
      /\ MatchingRules(DetectedText(s)) = {}
      /\ LeadingVerb(DetectedText(s)) = "" ) =>
      Detected(s).isNull

\* ------------------------------------------------- sanitizeFilename by itself

\* The longest name given to sanitizeFilename.
MaxNameLen == 4

RawNames == UNION { [1..n -> NameChars] : n \in 0..MaxNameLen }

\* readFile line 153, deleteFile line 213, saveFile line 106: the name is
\* sanitized.
SanitizeCall(cs) ==
  /\ ~sanitized.returned
  /\ sanitized' = [returned |-> TRUE, input |-> cs, output |-> sanitizeFilename(cs)]
  /\ UNCHANGED << apiKey, memoryStore, analyticsStore, files, coord, hreq, served, appended >>

\* The caller has the name; the next call may come.
SanitizeReturn ==
  /\ sanitized.returned
  /\ sanitized' = NoSanitize
  /\ UNCHANGED << apiKey, memoryStore, analyticsStore, files, coord, hreq, served, appended >>

SanitizeNext ==
  \/ \E cs \in RawNames : SanitizeCall(cs)
  \/ SanitizeReturn

SanitizeSpec == MemoryInit /\ [][SanitizeNext]_vars

\* C22: the name sanitizeFilename returns is never empty, holds no slash and
\* no backslash and no "..", so the path made of the safe directory and the
\* name is an entry of the safe directory: not its parent, not the directory
\* itself, nothing outside it.
SanitizedNameStaysInside ==
  sanitized.returned =>
    LET name == sanitized.output
    IN  /\ name # << >>
        /\ \A i \in 1..Len(name) : ~IsSeparator(name[i])
        /\ \A i \in 1..(Len(name) - 1) : ~(name[i] = "." /\ name[i + 1] = ".")
        /\ pathJoin(name) = "entry"

\* ------------------------------------------------------ the file commands

\* C23: a successful create whose target name has no "." leaves the artifact
\* in the file store under the name with the extension of its type appended
\* (type script, name foo: foo.js), where a following read, list or delete by
\* that name finds it.
CreatedUnderItsName ==
  \A s \in Slots :
    ( /\ hreq[s].pc = "done"
      /\ hreq[s].result.response.kind = "created"
      /\ hreq[s].parsedCommand.params["name"][1] \notin FileWords ) =>
      LET p == hreq[s].parsedCommand.params
          target == FileName(p["name"][1], extensionMap(p["type"][1]))
      IN  /\ existsSync(files, target)
          /\ files[target] = p["content"]

\* A request that the file-oriented handler has answered for a command on a
\* named file.
FileCommandAnswered(s, command) ==
  /\ hreq[s].pc = "done"
  /\ hreq[s].agentId = "script-launcher"
  /\ hreq[s].dispatchCalls = 1
  /\ hreq[s].parsedCommand.command = command
  /\ Truthy(hreq[s].parsedCommand.params, "filename")

\* The file a command names, as a key of the store.
NamedFile(s) == FileName(hreq[s].parsedCommand.params["filename"][1], "")

\* C24: a read command for a file that is in the store, whatever its content
\* (empty content included), dispatched to script-launcher, is answered with
\* the success message holding the name and the content; the failure message
\* comes only when the read of the file store itself fails.
ReadReturnsStoredContent ==
  \A s \in Slots :
    ( /\ FileCommandAnswered(s, "read")
      /\ existsSync(hreq[s].filesBefore, NamedFile(s))
      /\ hreq[s].ioOk ) =>
      /\ hreq[s].result.status = 200
      /\ hreq[s].result.response.kind = "file-content"

\* The store without one file.
Unlinked(store, filename) == [f \in DOMAIN store \ {filename} |-> store[f]]

\* C25: a delete command for a name that is not in the store, dispatched to
\* script-launcher, is answered with the failure message and leaves the
\* stored files as they were, without an exception; a delete for a name that
\* is in the store removes that file and no other and reports success.
DeleteIsExact ==
  \A s \in Slots :
    FileCommandAnswered(s, "delete") =>
      IF ~existsSync(hreq[s].filesBefore, NamedFile(s))
      THEN /\ hreq[s].result.status = 200
           /\ hreq[s].result.response.kind = "delete-failed"
           /\ files = hreq[s].filesBefore
      ELSE hreq[s].ioOk =>
             /\ hreq[s].result.status = 200
             /\ hreq[s].result.response.kind = "deleted"
             /\ files = Unlinked(hreq[s].filesBefore, NamedFile(s))

\* ------------------------------------------------- optional trailing clauses

\* The places of a keyword in a text with words before and after it, counted
\* from the word at from.
ClauseAt(ws, kw, from) == { i \in (from + 1)..(Len(ws) - 1) : ws[i] = kw }

\* C26: detectCommand splits "search <query> in <source>" into the query alone
\* and the source, and "schedule <type> <description> for <time>" into the
\* description alone and the time; the trailing clause is not left inside the
\* query or the description with an empty source or time.
TrailingClauseSplitOff ==
  \A s \in Slots :
    RanDetect(s) =>
      LET ws == trim(DetectedText(s)).words
          p == Detected(s).params
      IN  /\ (StartsWith(ws, {"search"}) /\ ClauseAt(ws, "in", 2) # {}) =>
               /\ Detected(s).command = "search"
               /\ \E i \in ClauseAt(ws, "in", 2) :
                    /\ p["query"] = SubSeq(ws, 2, i - 1)
                    /\ p["source"] = SubSeq(ws, i + 1, Len(ws))
          /\ ( /\ StartsWith(ws, {"schedule"}) /\ Len(ws) >= 2 /\ ws[2] \in ScheduleTypes
               /\ ClauseAt(ws, "for", 3) # {} ) =>
               /\ Detected(s).command = "schedule"
               /\ \E i \in ClauseAt(ws, "for", 3) :
                    /\ p["description"] = SubSeq(ws, 3, i - 1)
                    /\ p["time"] = SubSeq(ws, i + 1, Len(ws))

\* ------------------------------------------------------- the read window

\* The limits a read is made with, zero among them.
WindowLimits == { 0, 1, 2, 10, 100, 150 }

\* C27: getMemory(key, limit) returns the last min(limit, n) of the n entries
\* stored for the key, oldest first: never more than limit entries (none for
\* limit 0), and none for a key with no history.
ReadIsBoundedWindow ==
  \A k \in MemoryKeys \cup { UnknownAgent } :
    \A limit \in WindowLimits :
      LET stored == IF k \in DOMAIN memoryStore THEN memoryStore[k] ELSE << >>
          n == Len(stored)
          m == IF limit < n THEN limit ELSE n
          r == getMemory(memoryStore, k, limit)
      IN  /\ Len(r) <= limit
          /\ r = SubSeq(stored, n - m + 1, n)

\* ------------------------------------------------------------ termination

\* Coordinator requests received in a run to the end.
MaxLive == 1

\* Commands that take each road through the Coordinator: rejected, answered
\* with the help text, mapped without the backend, delegated by the backend.
LiveCommands ==
  { MissingText,
    Txt(<<"list", "commands">>),
    Txt(<<"create", "script", "foo", "with", "content:", "hi">>),
    Txt(<<"search">>),
    Txt(<<"read", "notes.txt">>),
    Txt(<<"delete", "notes.txt">>),
    Txt(<<"analyze", "json:", "data">>),
    Txt(<<"schedule", "lunch">>),
    Txt(<<"hello", "there">>) }

\* Delegation replies of each kind: a rejected fetch, a refusal, a handler
\* named, an unknown handler named, the Coordinator named.
LiveReplies ==
  { [NoReply EXCEPT !.kind = "throw"],
    [NoReply EXCEPT !.kind = "http_error", !.form = "json"] } \cup
  { [kind |-> "ok", form |-> "json", agent |-> a, hasReason |-> TRUE] :
      a \in { AgentString("script-launcher"), AgentString("data-processor"),
               AgentString(UnknownAgent), AgentNull } }

\* What a request in flight does next once the call it waits for has returned
\* or failed.
Progress(s) ==
  \/ \E reply \in LiveReplies : CoordDelegationReply(s, reply)
  \/ CoordDispatch(s)
  \/ CoordHandlerArrive(s)
  \/ CoordHandlerReturn(s)
  \/ CoordHandlerNetFail(s)
  \/ \E outcome \in BackendOutcomes : CoordBackendReply(s, outcome)
  \/ CoordRespond(s)
  \/ \E ioOk \in BOOLEAN : HandlerFileReply(s, ioOk)
  \/ \E outcome \in BackendOutcomes : HandlerAiReply(s, outcome)

LiveNext ==
  \E s \in Slots :
    \/ served < MaxLive /\ \E command \in LiveCommands : CoordReceive(s, command)
    \/ \E reply \in LiveReplies : CoordDelegationReply(s, reply)
    \/ CoordDispatch(s)
    \/ CoordHandlerArrive(s)
    \/ CoordHandlerReturn(s)
    \/ CoordHandlerNetFail(s)
    \/ \E outcome \in BackendOutcomes : CoordBackendReply(s, outcome)
    \/ CoordRespond(s)
    \/ CoordFinish(s)
    \/ \E ioOk \in BOOLEAN : HandlerFileReply(s, ioOk)
    \/ \E outcome \in BackendOutcomes : HandlerAiReply(s, outcome)

\* Every external call returns or fails, and the code after it runs.
FairSpec == Init /\ [][LiveNext]_vars /\ \A s \in Slots : WF_vars(Progress(s))

\* The calls a request has made stay within one of each kind.
CallsBounded ==
  \A s \in Slots :
    /\ coord[s].delegationCalls <= 1
    /\ coord[s].directCalls <= 1
    /\ coord[s].handlerCalls <= 1
    /\ hreq[s].aiCalls <= 1
    /\ coord[s].delegationCalls + coord[s].directCalls + hreq[s].aiCalls <= 3

\* C28: when every external call returns or fails, every Coordinator request
\* reaches a terminal state, having made at most one delegation call, at
\* most one generative call by the handler, at most one direct or fallback
\* call and at most one call of the handler endpoint; nothing is retried.
RequestsTerminate ==
  /\ []CallsBounded
  /\ \A s \in Slots : (coord[s].pc # "idle") ~> (coord[s].pc = "done")

\* C28 witness: a request is over that called the backend for delegation,
\* called the handler endpoint, and after the handler's failure called the
\* backend again for the fallback answer.
RequestUsedEveryCall ==
  \E s \in Slots :
    /\ coord[s].pc = "done"
    /\ coord[s].delegationCalls = 1
    /\ coord[s].handlerCalls = 1
    /\ coord[s].directCalls = 1
    /\ coord[s].result.response.kind \in { "fallback-generated", "fallback-apology" }

\* ------------------------------------------- mapped commands need no backend

\* The Coordinator request of a slot parsed its command by the create,
\* analyze, search or schedule rule.
MappedByRule(s) ==
  /\ coord[s].detected
  /\ ~IsHelpLiteral(coord[s].command)
  /\ MatchingRules(coord[s].command) # {}
  /\ coord[s].parsedCommand.command \in { "create", "analyze", "search", "schedule" }

\* C29: a Coordinator request whose command the create, analyze, search or
\* schedule rule matched is delegated without the backend to a handler whose
\* dispatch table has an entry for the command; the handler dispatches the
\* parsed command of the context and never asks the backend; and when the
\* handler's answer arrives the request completes with it, no generative call
\* made.
MappedCommandsNeedNoBackend ==
  \A s \in Slots :
    (MappedByRule(s) /\ coord[s].decided) =>
      /\ coord[s].delegationCalls = 0
      /\ << coord[s].decision.delegatedAgent, coord[s].parsedCommand.command >>
           \in DispatchTable
      /\ (coord[s].pc = "await_handler" /\ hreq[s].pc # "idle") =>
           /\ hreq[s].parsedCommand = coord[s].parsedCommand
           /\ hreq[s].detectCalls = 0
           /\ hreq[s].dispatchCalls = 1
           /\ hreq[s].aiCalls = 0
           /\ hreq[s].pc = "done" => hreq[s].result.status = 200
      /\ (coord[s].pc = "done" /\ Producer(coord[s].result.response) # "") =>
           /\ coord[s].result.status = 200
           /\ coord[s].handlerCalls = 1
           /\ coord[s].directCalls = 0
           /\ coord[s].result.response.kind \notin { "generated", "simulated" }

\* C29 witness: "create script foo with content: hi" went to script-launcher,
\* the file was written, and the request is over without a backend call.
CreateCompletedWithoutBackend ==
  \E s \in Slots :
    /\ coord[s].pc = "done"
    /\ MappedByRule(s)
    /\ coord[s].parsedCommand.command = "create"
    /\ coord[s].result.response = Resp("created", "script-launcher")
    /\ coord[s].delegationCalls = 0
    /\ coord[s].directCalls = 0

\* ------------------------------------------------- two deletes of one file

\* Requests received in a run with two execute-route requests in flight.
MaxRace == 3

\* The file commands sent side by side to script-launcher.
RaceCommands ==
  { Txt(<<"delete", "notes.txt">>), Txt(<<"read", "notes.txt">>), Txt(<<"list", "files">>) }

RaceNext ==
  \E s \in AllSlots :
    \/ /\ served < MaxRace
       /\ \E command \in RaceCommands : ClientHandlerRequest(s, "script-launcher", command)
    \/ \E ioOk \in BOOLEAN : HandlerFileReply(s, ioOk)
    \/ HandlerFinish(s)

RaceSpec == MemoryInit /\ [][RaceNext]_vars

\* Both slots hold an answered delete of the same file, which each of them
\* found in the store, and the file system refused neither.
BothDeleted(f) ==
  \A s \in AllSlots :
    /\ FileCommandAnswered(s, "delete")
    /\ NamedFile(s) = f
    /\ existsSync(hreq[s].filesBefore, f)
    /\ hreq[s].ioOk

\* C30: when two delete requests for the same stored file run side by side,
\* both past the existence check before either unlinks, one of them reports
\* success and the other failure, neither ends in an exception, the file is
\* gone and every other stored file is as it was.
ConcurrentDeletesAgree ==
  \A f \in DOMAIN InitialFiles :
    BothDeleted(f) =>
      /\ \A s \in AllSlots : hreq[s].result.status = 200
      /\ \E s \in AllSlots :
           /\ hreq[s].result.response.kind = "deleted"
           /\ \A t \in AllSlots \ {s} : hreq[t].result.response.kind = "delete-failed"
      /\ files = Unlinked(InitialFiles, f)

\* C30 witness: both requests passed the existence check while the file was
\* there, and both have been answered.
DeletesRaced ==
  /\ BothDeleted(FileName("notes.txt", ""))
  /\ hreq["r1"].filesBefore = hreq["r2"].filesBefore
  /\ hreq["r1"].result.response.kind = "delete-failed"
  /\ hreq["r2"].result.response.kind = "deleted"

====
